---- MODULE Spec2Model ----
(***************************************************************************)
(* Chat dispatcher of agent.py: the process-wide MEMORY log, the /agent    *)
(* and /webhook handlers, the slash commands and the model call.           *)
(*                                                                         *)
(* A Python str is a sequence of chunks: one-character strings where the   *)
(* code inspects the text (the request's message), whole literals where    *)
(* it only copies it.  f-strings and joins are concatenations (\o).        *)
(* A JSON value read from a request body is a record [t, s]: its type tag  *)
(* and its text.  Handlers run concurrently; one action is one handler     *)
(* step holding at most one access to MEMORY or one external call.         *)
(***************************************************************************)
EXTENDS Integers, Sequences, FiniteSets, TLC

VARIABLES MEMORY, GEMINI_API_KEY, req

vars == <<MEMORY, GEMINI_API_KEY, req>>

(* ------------------------------- bounds -------------------------------- *)

\* number of requests a run receives (each in its own handler thread)
MaxReq == 2

\* readings of time.time(), in half seconds; the wall clock may stand still,
\* advance or be set back between two readings
MaxTime == 2

Times == 1..MaxTime

TicksPerSecond == 2

Requests == 1..MaxReq

(* --------------------------- program constants -------------------------- *)

DefaultLimit == 20

\* r.text[:4000]
FetchLimit == 4000

CommandLimit == 50

(* ------------------------------ JSON values ----------------------------- *)

JAbsent == [t |-> "absent", s |-> <<>>]

JStr(s) == [t |-> "str", s |-> s]

JNum(s) == [t |-> "num", s |-> s]

JBool(b) == [t |-> "bool", s |-> IF b THEN <<"true">> ELSE <<"false">>]

\* Python truthiness of the value dict.get returns (a missing key gives the
\* default, which is falsy at every call site)
Truthy(j) ==
    CASE j.t = "absent" -> FALSE
      [] j.t = "str" -> j.s # <<>>
      [] j.t = "num" -> j.s # <<"0">>
      [] j.t = "bool" -> j.s = <<"true">>

(* --------------------------------- text --------------------------------- *)

IsSpace(c) == c \in {" ", "\n", "\t"}

RECURSIVE LStrip(_)
LStrip(s) == IF s # <<>> /\ IsSpace(Head(s)) THEN LStrip(Tail(s)) ELSE s

RECURSIVE RStrip(_)
RStrip(s) ==
    IF s # <<>> /\ IsSpace(s[Len(s)]) THEN RStrip(SubSeq(s, 1, Len(s) - 1)) ELSE s

\* str.strip()
Strip(s) == RStrip(LStrip(s))

LowerChar(c) ==
    CASE c = "H" -> "h"
      [] c = "R" -> "r"
      [] c = "F" -> "f"
      [] OTHER -> c

\* str.lower()
Lower(s) == [i \in DOMAIN s |-> LowerChar(s[i])]

\* str.startswith(p)
StartsWith(s, p) == Len(s) >= Len(p) /\ SubSeq(s, 1, Len(p)) = p

\* s[n:]
Drop(s, n) == SubSeq(s, n + 1, Len(s))

RECURSIVE Join(_, _)
\* sep.join(lines)
Join(sep, lines) ==
    IF lines = <<>> THEN <<>>
    ELSE IF Len(lines) = 1 THEN lines[1]
    ELSE lines[1] \o sep \o Join(sep, Tail(lines))

CmdRemember == <<"/", "r", "e", "m", "e", "m", "b", "e", "r", " ">>

CmdHistory == <<"/", "h", "i", "s", "t", "o", "r", "y">>

CmdFetch == <<"/", "f", "e", "t", "c", "h", " ">>

\* the fixed texts of the code, written without their diacritics
NoKeyText == <<"Blad: Brak klucza GEMINI_API_KEY po stronie serwera.">>

NoCandidatesText == <<"Brak odpowiedzi od modelu.">>

NoPartsText == <<"Model nie zwrocil tresci.">>

EmptyReplyText == <<"Model zwrocil pusta odpowiedz.">>

GeminiErrorPrefix == <<"Blad podczas wywolania Gemini: ">>

NoHistoryText == <<"Brak historii dla tej sesji.">>

MissingMessageError == <<"Brak pola 'message' w JSON.">>

(* ------------------------------ the log --------------------------------- *)

\* defect: the entry is inserted at the front of the list
add_memory_entry_front(mem, session_id, role, content, ts) ==
    <<[session_id |-> session_id, role |-> role,
       content |-> content, timestamp |-> ts]>> \o mem

\* defect: an entry stamped like the last entry of the list takes its place
add_memory_entry_lossy(mem, session_id, role, content, ts) ==
    LET entry == [session_id |-> session_id, role |-> role,
                  content |-> content, timestamp |-> ts]
    IN IF mem # <<>> /\ mem[Len(mem)].timestamp = ts
       THEN [mem EXCEPT ![Len(mem)] = entry]
       ELSE Append(mem, entry)

\* MEMORY.append({...}) with the reading ts of time.time()
add_memory_entry(mem, session_id, role, content, ts) ==
    Append(mem, [session_id |-> session_id, role |-> role,
                 content |-> content, timestamp |-> ts])

MinTimestamp(h) ==
    CHOOSE t \in {h[i].timestamp : i \in DOMAIN h} :
        \A i \in DOMAIN h : t <= h[i].timestamp

RECURSIVE SortedByTimestamp(_)
\* sorted(history, key=timestamp): stable, entries of equal timestamp keep
\* their order
SortedByTimestamp(h) ==
    IF h = <<>> THEN <<>>
    ELSE LET m == MinTimestamp(h)
         IN SelectSeq(h, LAMBDA e : e.timestamp = m)
              \o SortedByTimestamp(SelectSeq(h, LAMBDA e : e.timestamp # m))

\* defect: history[:limit], the oldest entries are kept
FirstOf(h, limit) ==
    IF Len(h) <= limit THEN h ELSE SubSeq(h, 1, limit)

\* defect: history[-limit:-1], the newest entry is left out
LastOfButNewest(h, limit) ==
    IF Len(h) <= 1 THEN <<>>
    ELSE IF Len(h) <= limit THEN SubSeq(h, 1, Len(h) - 1)
    ELSE SubSeq(h, Len(h) - limit + 1, Len(h) - 1)

\* history[-limit:]
LastOf(h, limit) ==
    IF Len(h) <= limit THEN h ELSE SubSeq(h, Len(h) - limit + 1, Len(h))

\* defect: the filter on session_id is left out
get_session_history_unfiltered(mem, session_id, limit) ==
    LastOf(SortedByTimestamp(mem), limit)

\* defect: the sort is left out, the entries stay in append order
get_session_history_unsorted(mem, session_id, limit) ==
    LastOf(SelectSeq(mem, LAMBDA m : m.session_id = session_id), limit)

get_session_history(mem, session_id, limit) ==
    LastOf(SortedByTimestamp(SelectSeq(mem, LAMBDA m : m.session_id = session_id)),
           limit)

\* datetime.fromtimestamp(ts).strftime("%Y-%m-%d %H:%M:%S"): whole seconds
FormatTs(ts) == ToString(ts \div TicksPerSecond)

\* f"[{ts}] {h['role']}: {h['content']}"
RenderLine(h) == <<"[", FormatTs(h.timestamp), "] ", h.role, ": ">> \o h.content

RenderHistory(history) ==
    LET lines == [i \in DOMAIN history |-> RenderLine(history[i])]
    IN IF lines # <<>> THEN Join(<<"\n">>, lines) ELSE NoHistoryText

(* ---------------------------- the commands ------------------------------ *)

\* defect: the prefixes are tested on the message as sent, neither stripped
\* nor lowercased
CommandOfRawText(message) ==
    IF StartsWith(message, CmdRemember) THEN "remember"
    ELSE IF StartsWith(message, CmdHistory) THEN "history"
    ELSE IF StartsWith(message, CmdFetch) THEN "fetch"
    ELSE "none"

\* the prefix tests of handle_command on msg = message.strip()
CommandOf(message) ==
    LET msg == Strip(message)
    IN IF StartsWith(Lower(msg), CmdRemember) THEN "remember"
       ELSE IF StartsWith(Lower(msg), CmdHistory) THEN "history"
       ELSE IF StartsWith(Lower(msg), CmdFetch) THEN "fetch"
       ELSE "none"

\* msg[len("/remember "):].strip()
ToRemember(message) == Strip(Drop(Strip(message), Len(CmdRemember)))

RememberContent(to_remember) == <<"[REMEMBER] ">> \o to_remember

RememberResponse(to_remember) == <<"Zapamietalem: ">> \o to_remember

\* msg[len("/fetch "):].strip()
FetchUrl(message) == Strip(Drop(Strip(message), Len(CmdFetch)))

\* defect: the exception's text is left out of the response
FetchErrorWithoutReason(url, e) == <<"Nie udalo sie pobrac strony ">> \o url

FetchErrorResponse(url, e) ==
    <<"Nie udalo sie pobrac strony ">> \o url \o <<": ">> \o e

FetchResponse(url, summary) ==
    <<"Streszczenie strony ">> \o url \o <<":\n\n">> \o summary

(* ---------------------------- the model call ---------------------------- *)

\* what the model API can answer to requests.post: an exception (transport,
\* timeout, raise_for_status, a body that is no JSON or not the expected
\* shape), or a JSON body with or without candidates, parts and text
ModelAnswers ==
    { [kind |-> "error", text |-> <<"HTTPError">>],
      [kind |-> "no_candidates", text |-> <<>>],
      [kind |-> "no_parts", text |-> <<>>],
      [kind |-> "text", text |-> <<" ">>],
      [kind |-> "text", text |-> <<"o", "k", " ">>] }

\* defect: the key is not looked at
KeyNeverMissing(key) == FALSE

\* call_gemini returns before any request when the key is not configured
KeyMissing(key) == ~key

\* defect: the except clause answers with the text for a body without
\* candidates
GeminiResultLosingError(answer) ==
    CASE answer.kind \in {"error", "no_candidates"} -> NoCandidatesText
      [] answer.kind = "no_parts" -> NoPartsText
      [] answer.kind = "text" ->
            IF Strip(answer.text) # <<>> THEN Strip(answer.text) ELSE EmptyReplyText

\* call_gemini from the answer of requests.post on
GeminiResult(answer) ==
    CASE answer.kind = "error" -> GeminiErrorPrefix \o answer.text
      [] answer.kind = "no_candidates" -> NoCandidatesText
      [] answer.kind = "no_parts" -> NoPartsText
      [] answer.kind = "text" ->
            IF Strip(answer.text) # <<>> THEN Strip(answer.text) ELSE EmptyReplyText

AgentInstructions ==
    <<"Jestes osobistym agentem uzytkownika Marek. ",
      "Masz byc konkretny, pomocny, praktyczny. ",
      "Jesli uzytkownik prosi o dzialanie, najpierw wyjasnij, co zrobisz.">>

FetchInstructions == <<"Jestes asystentem, ktory streszcza strony internetowe.">>

WebhookInstructions == <<"Jestes asystentem, ktory tlumaczy zdarzenia systemowe.">>

\* s[:n]
Take(s, n) == SubSeq(s, 1, IF Len(s) <= n THEN Len(s) ELSE n)

SummaryPrompt(content) ==
    <<"Stresc krotko zawartosc tej strony w jezyku polskim:\n\n">> \o content

WebhookPrompt(pretty) ==
    <<"Otrzymales nastepujace zdarzenie webhook (JSON). ",
      "Wyjasnij po polsku, co ono oznacza i co mozna z nim zrobic:\n\n">> \o pretty

SystemTurn(system_instructions) ==
    [role |-> "user", text |-> <<"[SYSTEM INSTRUCTIONS]\n">> \o system_instructions]

\* defect: every entry is sent with the role user
HistoryTurnAllUser(msg) ==
    [role |-> "user",
     text |-> IF msg.role = "webhook" THEN <<"[WEBHOOK EVENT]\n">> \o msg.content
              ELSE msg.content]

\* the turn call_gemini makes of one history entry
HistoryTurn(msg) ==
    IF msg.role = "assistant" THEN [role |-> "model", text |-> msg.content]
    ELSE IF msg.role = "system" THEN [role |-> "user", text |-> msg.content]
    ELSE IF msg.role = "webhook"
    THEN [role |-> "user", text |-> <<"[WEBHOOK EVENT]\n">> \o msg.content]
    ELSE [role |-> "user", text |-> msg.content]

\* the contents list of call_gemini's payload
BuildContents(prompt, system_instructions, history) ==
    (IF system_instructions # <<>> THEN <<SystemTurn(system_instructions)>> ELSE <<>>)
    \o [i \in DOMAIN history |-> HistoryTurn(history[i])]
    \o <<[role |-> "user", text |-> prompt]>>

\* what requests.get(url, timeout=10) and raise_for_status can do
FetchAnswers ==
    { [ok |-> TRUE, text |-> <<"page">>],
      [ok |-> FALSE, text |-> <<"ConnectionError">>] }

(* ------------------------------ requests -------------------------------- *)

SessionS1 == <<"s1">>

DefaultSession == <<"default">>

WebhookSession == <<"webhook">>

MsgHistory == CmdHistory

MsgRememberA == CmdRemember \o <<"a">>

\* "/remember " with nothing after it
MsgRememberNothing == CmdRemember

MsgRememberPadded == CmdRemember \o <<" ", "b", " ">>

MsgFetch == CmdFetch \o <<"u">>

MsgHi == <<"h", "i">>

\* " /History!": blank before, a capital, text right after the word
MsgHistoryLoud == <<" ", "/", "H", "i", "s", "t", "o", "r", "y", "!">>

Messages ==
    {MsgHistory, MsgRememberA, MsgRememberNothing, MsgRememberPadded, MsgFetch, MsgHi,
     MsgHistoryLoud}

\* the parsed body of a POST /agent: a JSON object (no body, a body that is
\* no JSON and a falsy body all become {}), or a truthy JSON value that is no
\* object (an array, a number, a string)
AgentBodies ==
    [kind : {"object"},
     message : {JAbsent, JStr(<<>>), JNum(<<"5">>)} \cup {JStr(m) : m \in Messages},
     session_id : {JAbsent, JStr(SessionS1)},
     interpret : {JAbsent}]
    \cup {[kind |-> "other", message |-> JAbsent, session_id |-> JAbsent,
           interpret |-> JAbsent]}

WebhookBodies ==
    [kind : {"object"},
     message : {JAbsent},
     session_id : {JAbsent, JStr(SessionS1)},
     interpret : {JAbsent, JBool(FALSE), JBool(TRUE), JStr(<<"yes">>)}]
    \cup {[kind |-> "other", message |-> JAbsent, session_id |-> JAbsent,
           interpret |-> JAbsent]}

JsonText(j) == IF j.t = "str" THEN <<"\"">> \o j.s \o <<"\"">> ELSE j.s

JsonField(key, j) == IF j.t = "absent" THEN <<>> ELSE <<key, ": ">> \o JsonText(j) \o <<"\n">>

\* json.dumps(payload, ensure_ascii=False, indent=2)
PrettyJson(body) ==
    <<"{\n">> \o JsonField("session_id", body.session_id)
              \o JsonField("interpret_with_gemini", body.interpret) \o <<"}">>

\* a handler that has not been started.  Besides the handler's locals
\* (contents is the list sent in the payload of requests.post) the
\* record keeps what the caller gets (status, type, response, gemini_summary:
\* <<>> for null, <<text>> for a string) and, for the properties, what the
\* handler did: the outbound calls it made and how they were answered
\* (fetched, modelAnswer, with the exception's text), the entries it
\* appended, and the
\* length of MEMORY before its first append (first), at its read of the
\* history (readLen) and after its last append (last); prior is the number of
\* entries its session had before its first append.
IdleReq ==
    [pc |-> "idle", endpoint |-> "none", body |-> "none", message |-> JAbsent,
     sid_in |-> JAbsent, session_id |-> <<>>, interpret |-> JAbsent,
     history |-> <<>>, contents |-> <<>>,
     type |-> "none", response |-> <<>>, gemini_summary |-> <<>>,
     status |-> 0, apiCalls |-> 0, fetchCalls |-> 0, geminiCalls |-> 0,
     fetched |-> "none", fetchError |-> <<>>, modelAnswer |-> "none",
     modelError |-> <<>>,
     appended |-> 0, first |-> 0, readLen |-> 0, last |-> 0, prior |-> 0]

SessionCount(mem, session_id) ==
    Len(SelectSeq(mem, LAMBDA m : m.session_id = session_id))

\* the log a run starts from: empty, or the log after PrefillLen webhook
\* posts {"session_id": "s1"} all stamped with the same clock reading
PrefillLen == CommandLimit - 2

PrefillTime == 2

PrefillBody ==
    [kind |-> "object", message |-> JAbsent, session_id |-> JStr(SessionS1),
     interpret |-> JAbsent]

Prefill(n) ==
    [i \in 1..n |-> [session_id |-> SessionS1, role |-> "webhook",
                     content |-> PrettyJson(PrefillBody), timestamp |-> PrefillTime]]

Init ==
    /\ MEMORY \in {Prefill(0), Prefill(PrefillLen)}
    /\ GEMINI_API_KEY \in BOOLEAN
    /\ req = [r \in Requests |-> IdleReq]

\* handlers are numbered in the order the requests arrive
NextToArrive(r) ==
    /\ req[r].pc = "idle"
    /\ \A q \in Requests : q < r => req[q].pc # "idle"

(* --------------------------- POST /agent -------------------------------- *)

\* data.get("message", "")
MessageOf(body) == IF body.message.t = "absent" THEN JStr(<<>>) ELSE body.message

\* data.get("session_id") or "default"
AgentSessionOf(body) ==
    IF Truthy(body.session_id) THEN body.session_id.s ELSE DefaultSession

\* agent_endpoint up to its first append: a body that is no object has no
\* .get (AttributeError, answered 500); a falsy message is answered 400;
\* otherwise the user entry is appended
AgentReceive(r) ==
    /\ NextToArrive(r)
    /\ \E body \in AgentBodies, ts \in Times :
         LET message == MessageOf(body)
             session_id == AgentSessionOf(body)
             base == [IdleReq EXCEPT !.endpoint = "agent", !.body = body.kind]
         IN IF body.kind = "other"
            THEN /\ req' = [req EXCEPT ![r] = [base EXCEPT !.pc = "done", !.status = 500]]
                 /\ UNCHANGED MEMORY
            ELSE IF ~Truthy(message)
            THEN /\ req' = [req EXCEPT ![r] =
                      [base EXCEPT !.pc = "done", !.status = 400, !.message = message,
                                   !.sid_in = body.session_id,
                                   !.session_id = session_id,
                                   !.response = MissingMessageError]]
                 /\ UNCHANGED MEMORY
            ELSE /\ MEMORY' = add_memory_entry(MEMORY, session_id, "user", message.s, ts)
                 /\ req' = [req EXCEPT ![r] =
                      [base EXCEPT !.pc = "cmd", !.message = message,
                                   !.sid_in = body.session_id,
                                   !.session_id = session_id,
                                   !.first = Len(MEMORY),
                                   !.prior = SessionCount(MEMORY, session_id),
                                   !.appended = 1, !.last = Len(MEMORY) + 1]]
    /\ UNCHANGED GEMINI_API_KEY

\* handle_command on a message that is no str: message.strip() raises, the
\* request is answered 500
AgentCrash(r) ==
    /\ req[r].pc = "cmd"
    /\ req[r].message.t # "str"
    /\ req' = [req EXCEPT ![r].pc = "done", ![r].status = 500]
    /\ UNCHANGED <<MEMORY, GEMINI_API_KEY>>

\* handle_command, /remember: the system entry is appended
AgentRemember(r) ==
    /\ req[r].pc = "cmd"
    /\ req[r].message.t = "str"
    /\ CommandOf(req[r].message.s) = "remember"
    /\ \E ts \in Times :
         LET to_remember == ToRemember(req[r].message.s)
         IN /\ MEMORY' = add_memory_entry(MEMORY, req[r].session_id, "system",
                                          RememberContent(to_remember), ts)
            /\ req' = [req EXCEPT ![r].pc = "reply", ![r].type = "remember",
                                  ![r].response = RememberResponse(to_remember),
                                  ![r].appended = @ + 1,
                                  ![r].last = Len(MEMORY) + 1]
    /\ UNCHANGED GEMINI_API_KEY

\* handle_command, /history: the session's history is read and rendered
AgentHistory(r) ==
    /\ req[r].pc = "cmd"
    /\ req[r].message.t = "str"
    /\ CommandOf(req[r].message.s) = "history"
    /\ LET history == get_session_history(MEMORY, req[r].session_id, CommandLimit)
       IN req' = [req EXCEPT ![r].pc = "reply", ![r].type = "history",
                             ![r].history = history,
                             ![r].response = RenderHistory(history),
                             ![r].readLen = Len(MEMORY)]
    /\ UNCHANGED <<MEMORY, GEMINI_API_KEY>>

\* handle_command, /fetch: requests.get(url, timeout=10) is sent
AgentFetch(r) ==
    /\ req[r].pc = "cmd"
    /\ req[r].message.t = "str"
    /\ CommandOf(req[r].message.s) = "fetch"
    /\ req' = [req EXCEPT ![r].pc = "fetch", ![r].type = "fetch",
                          ![r].fetchCalls = @ + 1]
    /\ UNCHANGED <<MEMORY, GEMINI_API_KEY>>

\* the answer to requests.get: a failure is answered with fetch_error; a page
\* is handed to call_gemini, which returns at once without a key and sends
\* requests.post with one
FetchReturn(r) ==
    /\ req[r].pc = "fetch"
    /\ \E answer \in FetchAnswers :
         LET url == FetchUrl(req[r].message.s)
         IN IF ~answer.ok
            THEN req' = [req EXCEPT ![r].pc = "reply", ![r].type = "fetch_error",
                                    ![r].fetched = "fail",
                                    ![r].fetchError = answer.text,
                                    ![r].response = FetchErrorResponse(url, answer.text)]
            ELSE IF KeyMissing(GEMINI_API_KEY)
            THEN req' = [req EXCEPT ![r].pc = "reply",
                                    ![r].fetched = "ok",
                                    ![r].geminiCalls = @ + 1,
                                    ![r].response = FetchResponse(url, NoKeyText)]
            ELSE req' = [req EXCEPT ![r].pc = "model",
                                    ![r].fetched = "ok",
                                    ![r].contents =
                                        BuildContents(
                                            SummaryPrompt(Take(answer.text, FetchLimit)),
                                            FetchInstructions, <<>>),
                                    ![r].geminiCalls = @ + 1,
                                    ![r].apiCalls = @ + 1]
    /\ UNCHANGED <<MEMORY, GEMINI_API_KEY>>

\* no command: get_session_history(session_id, limit=20), then call_gemini
AgentDispatch(r) ==
    /\ req[r].pc = "cmd"
    /\ req[r].message.t = "str"
    /\ CommandOf(req[r].message.s) = "none"
    /\ LET history == get_session_history(MEMORY, req[r].session_id, DefaultLimit)
       IN IF KeyMissing(GEMINI_API_KEY)
          THEN req' = [req EXCEPT ![r].pc = "reply", ![r].type = "gemini",
                                  ![r].history = history,
                                  ![r].readLen = Len(MEMORY),
                                  ![r].geminiCalls = @ + 1,
                                  ![r].response = NoKeyText]
          ELSE req' = [req EXCEPT ![r].pc = "model", ![r].type = "gemini",
                                  ![r].history = history,
                                  ![r].contents =
                                      BuildContents(req[r].message.s,
                                                    AgentInstructions, history),
                                  ![r].readLen = Len(MEMORY),
                                  ![r].geminiCalls = @ + 1,
                                  ![r].apiCalls = @ + 1]
    /\ UNCHANGED <<MEMORY, GEMINI_API_KEY>>

\* the answer to requests.post of call_gemini, for /fetch, for a plain
\* message and for a webhook
ModelReturn(r) ==
    /\ req[r].pc = "model"
    /\ \E answer \in ModelAnswers :
         LET result == GeminiResult(answer)
         IN req' = [req EXCEPT
                ![r].pc = "reply",
                ![r].modelAnswer = answer.kind,
                ![r].modelError = IF answer.kind = "error" THEN answer.text ELSE <<>>,
                ![r].response =
                    IF req[r].type = "fetch"
                    THEN FetchResponse(FetchUrl(req[r].message.s), result)
                    ELSE IF req[r].type = "gemini" THEN result ELSE @,
                ![r].gemini_summary =
                    IF req[r].endpoint = "webhook" THEN <<result>> ELSE @]
    /\ UNCHANGED <<MEMORY, GEMINI_API_KEY>>

\* agent_endpoint's end: the response text is appended as the assistant
\* entry and returned
AgentReply(r) ==
    /\ req[r].pc = "reply"
    /\ req[r].endpoint = "agent"
    /\ \E ts \in Times :
         MEMORY' = add_memory_entry(MEMORY, req[r].session_id, "assistant",
                                    req[r].response, ts)
    /\ req' = [req EXCEPT ![r].pc = "done", ![r].status = 200,
                          ![r].appended = @ + 1, ![r].last = Len(MEMORY) + 1]
    /\ UNCHANGED GEMINI_API_KEY

(* --------------------------- POST /webhook ------------------------------ *)

\* payload.get("session_id") or "webhook"
WebhookSessionOf(body) ==
    IF Truthy(body.session_id) THEN body.session_id.s ELSE WebhookSession

\* webhook up to the model call: a body that is no object has no .get
\* (AttributeError, answered 500); otherwise the webhook entry is appended
\* and, when interpret_with_gemini is truthy, call_gemini is entered
WebhookReceive(r) ==
    /\ NextToArrive(r)
    /\ \E body \in WebhookBodies, ts \in Times :
         LET session_id == WebhookSessionOf(body)
             pretty == PrettyJson(body)
             base == [IdleReq EXCEPT !.endpoint = "webhook", !.body = body.kind,
                                     !.type = "webhook"]
             added == [base EXCEPT !.sid_in = body.session_id,
                                   !.session_id = session_id,
                                   !.interpret = body.interpret,
                                   !.first = Len(MEMORY),
                                   !.prior = SessionCount(MEMORY, session_id),
                                   !.appended = 1, !.last = Len(MEMORY) + 1]
         IN IF body.kind = "other"
            THEN /\ req' = [req EXCEPT ![r] = [base EXCEPT !.pc = "done", !.status = 500]]
                 /\ UNCHANGED MEMORY
            ELSE /\ MEMORY' = add_memory_entry(MEMORY, session_id, "webhook", pretty, ts)
                 /\ IF ~Truthy(body.interpret)
                    THEN req' = [req EXCEPT ![r] =
                             [added EXCEPT !.pc = "done", !.status = 200]]
                    ELSE IF KeyMissing(GEMINI_API_KEY)
                    THEN req' = [req EXCEPT ![r] =
                             [added EXCEPT !.pc = "reply", !.geminiCalls = 1,
                                           !.gemini_summary = <<NoKeyText>>]]
                    ELSE req' = [req EXCEPT ![r] =
                             [added EXCEPT !.pc = "model", !.geminiCalls = 1,
                                           !.contents =
                                               BuildContents(WebhookPrompt(pretty),
                                                             WebhookInstructions, <<>>),
                                           !.apiCalls = 1]]
    /\ UNCHANGED GEMINI_API_KEY

\* webhook's end after an interpretation: the summary is appended as the
\* assistant entry and returned
WebhookReply(r) ==
    /\ req[r].pc = "reply"
    /\ req[r].endpoint = "webhook"
    /\ \E ts \in Times :
         MEMORY' = add_memory_entry(MEMORY, req[r].session_id, "assistant",
                                    req[r].gemini_summary[1], ts)
    /\ req' = [req EXCEPT ![r].pc = "done", ![r].status = 200,
                          ![r].appended = @ + 1, ![r].last = Len(MEMORY) + 1]
    /\ UNCHANGED GEMINI_API_KEY

Next ==
    \E r \in Requests :
        \/ AgentReceive(r)
        \/ AgentCrash(r)
        \/ AgentRemember(r)
        \/ AgentHistory(r)
        \/ AgentFetch(r)
        \/ FetchReturn(r)
        \/ AgentDispatch(r)
        \/ ModelReturn(r)
        \/ AgentReply(r)
        \/ WebhookReceive(r)
        \/ WebhookReply(r)

Spec == Init /\ [][Next]_vars

(* ----------------------------- properties ------------------------------- *)

Done(r) == req[r].pc = "done"

IsPrefix(a, b) == Len(a) <= Len(b) /\ SubSeq(b, 1, Len(a)) = a

\* sub occurs in text
HasSub(text, sub) ==
    \E i \in 0..(Len(text) - Len(sub)) : SubSeq(text, i + 1, i + Len(sub)) = sub

\* line is one of the lines of "\n".join(lines) = text
HasLine(text, line) ==
    \E i \in 0..(Len(text) - Len(line)) :
        /\ SubSeq(text, i + 1, i + Len(line)) = line
        /\ i = 0 \/ text[i] = "\n"
        /\ i + Len(line) = Len(text) \/ text[i + Len(line) + 1] = "\n"

NonDecreasing(h) ==
    \A i \in 1..(Len(h) - 1) : h[i].timestamp <= h[i + 1].timestamp

\* C1: a /history request on a session that had no entry in the log is
\* answered 200 with type "history" and the fixed "no history" text.
C1_HistoryOfEmptySession ==
    \A r \in Requests :
        (/\ Done(r)
         /\ req[r].endpoint = "agent"
         /\ req[r].message = JStr(MsgHistory)
         /\ req[r].prior = 0)
        => (/\ req[r].status = 200
            /\ req[r].type = "history"
            /\ req[r].response = NoHistoryText)

\* C2: the entries a /history command renders are never more than 50, and
\* their timestamps are non-decreasing from one entry to the next.
C2_HistoryCappedAndOrdered ==
    \A r \in Requests :
        req[r].type = "history"
        => (/\ Len(req[r].history) <= CommandLimit
            /\ NonDecreasing(req[r].history)
            /\ req[r].response = RenderHistory(req[r].history))

\* a /history whose session holds more than 50 entries, among them one
\* stamped earlier than the entries appended before it: 50 are rendered, in
\* an order that differs from the append order
C2_Witness ==
    \E r \in Requests :
        /\ Done(r)
        /\ req[r].type = "history"
        /\ Len(req[r].history) = CommandLimit
        /\ SessionCount(SubSeq(MEMORY, 1, req[r].readLen), req[r].session_id)
             > CommandLimit
        /\ \E i \in 1..(Len(req[r].history) - 1) :
             req[r].history[i].timestamp < req[r].history[i + 1].timestamp
        /\ ~NonDecreasing(SelectSeq(SubSeq(MEMORY, 1, req[r].readLen),
                                    LAMBDA m : m.session_id = req[r].session_id))

\* C3: "/remember x" answered, then at once "/history" in the same session
\* (no entry appended in between): the history response has the line of the
\* system entry "[REMEMBER] x".
C3_RememberThenHistory ==
    \A r1, r2 \in Requests :
        (/\ Done(r1)
         /\ req[r1].endpoint = "agent"
         /\ req[r1].message.t = "str"
         /\ StartsWith(req[r1].message.s, CmdRemember)
         /\ req[r2].endpoint = "agent"
         /\ req[r2].message = JStr(MsgHistory)
         /\ req[r2].pc \in {"reply", "done"}
         /\ req[r2].session_id = req[r1].session_id
         /\ req[r2].first = req[r1].last
         /\ req[r2].readLen = req[r2].first + 1)
        => \E ts \in Times :
             HasLine(req[r2].response,
                     RenderLine([role |-> "system", timestamp |-> ts,
                                 content |-> RememberContent(
                                     Drop(req[r1].message.s, Len(CmdRemember)))]))

\* C4: a POST /agent whose message is missing or empty is answered 400 with
\* the error object, appends nothing and makes no model or fetch call; any
\* other one whose message is a string is answered 200 with one of the five
\* types.
C4_AgentAnswers ==
    \A r \in Requests :
        (Done(r) /\ req[r].endpoint = "agent")
        => IF req[r].message.t = "absent" \/ req[r].message = JStr(<<>>)
           THEN /\ req[r].status = 400
                /\ req[r].response = MissingMessageError
                /\ req[r].appended = 0
                /\ req[r].apiCalls = 0
                /\ req[r].fetchCalls = 0
           ELSE req[r].message.t = "str"
                => (/\ req[r].status = 200
                    /\ req[r].type \in
                         {"remember", "history", "fetch", "fetch_error", "gemini"})

\* C5: a POST /webhook whose interpret_with_gemini is false or absent is
\* answered with gemini_summary null, calls the model API not at all and
\* appends one entry, of role webhook.
C5_WebhookWithoutInterpretation ==
    \A r \in Requests :
        (/\ Done(r)
         /\ req[r].endpoint = "webhook"
         /\ req[r].interpret \in {JAbsent, JBool(FALSE)})
        => (/\ req[r].status = 200
            /\ req[r].gemini_summary = <<>>
            /\ req[r].apiCalls = 0
            /\ req[r].appended = 1
            /\ MEMORY[req[r].last].role = "webhook")

\* C6: a POST /webhook is answered 200 with the derived session_id whatever
\* the JSON body; with a truthy interpret_with_gemini call_gemini runs once
\* and its result is the gemini_summary and the content of the assistant
\* entry appended after the webhook entry of the same session.
C6_WebhookAlwaysAnswers ==
    \A r \in Requests :
        (Done(r) /\ req[r].endpoint = "webhook")
        => (/\ req[r].status = 200
            /\ req[r].session_id =
                 (IF Truthy(req[r].sid_in) THEN req[r].sid_in.s ELSE WebhookSession)
            /\ Truthy(req[r].interpret)
               => (/\ req[r].geminiCalls = 1
                   /\ req[r].appended = 2
                   /\ MEMORY[req[r].first + 1].role = "webhook"
                   /\ MEMORY[req[r].first + 1].session_id = req[r].session_id
                   /\ req[r].first + 1 < req[r].last
                   /\ MEMORY[req[r].last].role = "assistant"
                   /\ MEMORY[req[r].last].session_id = req[r].session_id
                   /\ req[r].gemini_summary = <<MEMORY[req[r].last].content>>))

NonCommand(r) ==
    /\ req[r].endpoint = "agent"
    /\ req[r].message.t = "str"
    /\ req[r].message.s # <<>>
    /\ CommandOf(req[r].message.s) = "none"

\* C7: without a key a POST /agent that is no command is answered 200 with
\* type "gemini" and the fixed no-key text, and no request goes out to the
\* model API.
C7_NoKeyNoCall ==
    ~GEMINI_API_KEY
    => \A r \in Requests :
         NonCommand(r)
         => (/\ req[r].apiCalls = 0
             /\ req[r].pc # "model"
             /\ Done(r) => (/\ req[r].status = 200
                            /\ req[r].type = "gemini"
                            /\ req[r].response = NoKeyText))

C7_Witness ==
    /\ ~GEMINI_API_KEY
    /\ \E r \in Requests :
         /\ NonCommand(r)
         /\ Done(r)
         /\ req[r].geminiCalls = 1
         /\ req[r].response = NoKeyText

\* C8: a /fetch whose retrieval fails is answered 200 with type
\* "fetch_error" and a response that holds the failure's text, and the model
\* API is not called for it.
C8_FetchFailure ==
    \A r \in Requests :
        req[r].fetched = "fail"
        => (/\ req[r].pc \in {"reply", "done"}
            /\ req[r].type = "fetch_error"
            /\ HasSub(req[r].response, req[r].fetchError)
            /\ HasSub(req[r].response, FetchUrl(req[r].message.s))
            /\ req[r].apiCalls = 0
            /\ req[r].geminiCalls = 0
            /\ Done(r) => req[r].status = 200)

C8_Witness ==
    \E r \in Requests :
        /\ Done(r)
        /\ req[r].fetchCalls = 1
        /\ req[r].fetched = "fail"
        /\ req[r].fetchError # <<>>
        /\ req[r].status = 200

\* C9: a failed model call of a POST /agent that is no command does not
\* reach the caller: the request is answered 200 with type "gemini" and the
\* error string, and that string is the content of its assistant entry.
C9_ModelFailureContained ==
    \A r \in Requests :
        (NonCommand(r) /\ req[r].modelAnswer = "error")
        => (/\ req[r].pc \in {"reply", "done"}
            /\ req[r].type = "gemini"
            /\ req[r].response = GeminiErrorPrefix \o req[r].modelError
            /\ Done(r)
               => (/\ req[r].status = 200
                   /\ req[r].appended = 2
                   /\ MEMORY[req[r].last] =
                        [session_id |-> req[r].session_id, role |-> "assistant",
                         content |-> req[r].response,
                         timestamp |-> MEMORY[req[r].last].timestamp]))

C9_Witness ==
    \E r \in Requests :
        /\ NonCommand(r)
        /\ req[r].apiCalls = 1
        /\ req[r].modelAnswer = "error"
        /\ req[r].modelError # <<>>
        /\ Done(r)
        /\ MEMORY[req[r].last].content = req[r].response

\* C10: each step leaves the log of before as a prefix of the log of after:
\* nothing is removed, reordered or changed, under every interleaving.
C10_AppendOnly == [][IsPrefix(MEMORY, MEMORY')]_vars

\* two handlers have appended in turns: the second one's first entry lies
\* between two entries of the first
C10_Witness ==
    \E r1, r2 \in Requests :
        /\ r1 # r2
        /\ req[r1].appended >= 2
        /\ req[r2].appended >= 1
        /\ req[r1].first < req[r2].first
        /\ req[r2].first < req[r1].last
        /\ Len(MEMORY) > req[r1].first + 2

\* the message is a non-empty str: the handler reaches handle_command and
\* handle_command can read it
TextMessage(r) ==
    /\ req[r].endpoint = "agent"
    /\ req[r].message.t = "str"
    /\ req[r].message.s # <<>>

\* the message's trimmed, lowercased text starts with prefix
Begins(r, prefix) == StartsWith(Lower(Strip(req[r].message.s)), prefix)

\* C11: a message is handled as a command exactly when its trimmed,
\* lowercased text starts with "/remember ", "/history" or "/fetch ", the
\* first that matches deciding; any other non-empty message goes to
\* call_gemini with type "gemini"; /remember and /history make no outbound
\* call.
C11_CommandRecognition ==
    \A r \in Requests :
        (TextMessage(r) /\ req[r].pc \notin {"idle", "cmd"})
        => (/\ req[r].type \in {"remember", "history", "fetch", "fetch_error"}
               <=> (\/ Begins(r, CmdRemember)
                    \/ Begins(r, CmdHistory)
                    \/ Begins(r, CmdFetch))
            /\ Begins(r, CmdRemember) => req[r].type = "remember"
            /\ (~Begins(r, CmdRemember) /\ Begins(r, CmdHistory))
               => req[r].type = "history"
            /\ (~Begins(r, CmdRemember) /\ ~Begins(r, CmdHistory)
                  /\ Begins(r, CmdFetch))
               => req[r].type \in {"fetch", "fetch_error"}
            /\ (~Begins(r, CmdRemember) /\ ~Begins(r, CmdHistory)
                  /\ ~Begins(r, CmdFetch))
               => (req[r].type = "gemini" /\ req[r].geminiCalls = 1)
            /\ req[r].type \in {"remember", "history"}
               => (/\ req[r].apiCalls = 0
                   /\ req[r].fetchCalls = 0
                   /\ req[r].geminiCalls = 0
                   /\ req[r].pc \in {"reply", "done"}))

\* " /History!" was answered as the history command and "/remember " (which
\* trims to "/remember") went to the model
C11_Witness ==
    \E r1, r2 \in Requests :
        /\ Done(r1)
        /\ req[r1].message = JStr(MsgHistoryLoud)
        /\ req[r1].type = "history"
        /\ req[r1].status = 200
        /\ Done(r2)
        /\ req[r2].message = JStr(MsgRememberNothing)
        /\ req[r2].type = "gemini"

\* e is an entry of the log
InLog(e) == \E i \in DOMAIN MEMORY : MEMORY[i] = e

\* C12: the payload of a message that is no command is the system
\* instructions turn, then at most 20 turns made of entries of the request's
\* session in non-decreasing timestamp order (assistant as model, the others
\* as user, a webhook's content after "[WEBHOOK EVENT]"), then the message
\* as the last turn, role user.
C12_PayloadShape ==
    \A r \in Requests :
        (NonCommand(r) /\ req[r].apiCalls = 1)
        => LET c == req[r].contents
               h == req[r].history
           IN /\ Len(c) = Len(h) + 2
              /\ Len(h) <= DefaultLimit
              /\ c[1] = [role |-> "user",
                         text |-> <<"[SYSTEM INSTRUCTIONS]\n">> \o AgentInstructions]
              /\ c[Len(c)] = [role |-> "user", text |-> req[r].message.s]
              /\ NonDecreasing(h)
              /\ \A i \in DOMAIN h :
                   /\ InLog(h[i])
                   /\ h[i].session_id = req[r].session_id
                   /\ c[i + 1].role = (IF h[i].role = "assistant" THEN "model" ELSE "user")
                   /\ c[i + 1].text =
                        (IF h[i].role = "webhook"
                         THEN <<"[WEBHOOK EVENT]\n">> \o h[i].content
                         ELSE h[i].content)

\* a payload of 22 turns, with a model turn and a webhook turn among them
C12_Witness ==
    \E r \in Requests :
        /\ NonCommand(r)
        /\ req[r].apiCalls = 1
        /\ Len(req[r].contents) = DefaultLimit + 2
        /\ \E i \in DOMAIN req[r].contents : req[r].contents[i].role = "model"
        /\ \E i \in DOMAIN req[r].history : req[r].history[i].role = "webhook"

\* the entries of session_id among the first n entries of the log, in the
\* order of the log
SessionLog(n, session_id) ==
    SelectSeq(SubSeq(MEMORY, 1, n), LAMBDA m : m.session_id = session_id)

WithTimestamp(h, t) == SelectSeq(h, LAMBDA e : e.timestamp = t)

IsSuffix(a, b) ==
    Len(a) <= Len(b) /\ SubSeq(b, Len(b) - Len(a) + 1, Len(b)) = a

\* h is the last k entries of the transcript of s: s ordered by timestamp,
\* entries of one timestamp in the order of the log.  Said without sorting:
\* h has k entries in non-decreasing timestamp order; of each timestamp it
\* holds the latest entries of s; and it holds all entries of s that are
\* newer than its oldest one and none that is older.
LastOfTranscript(h, s, k) ==
    /\ Len(h) = k
    /\ NonDecreasing(h)
    /\ \A t \in {s[i].timestamp : i \in DOMAIN s} :
         /\ IsSuffix(WithTimestamp(h, t), WithTimestamp(s, t))
         /\ (h # <<>> /\ t > h[1].timestamp) => WithTimestamp(h, t) = WithTimestamp(s, t)
         /\ (h # <<>> /\ t < h[1].timestamp) => WithTimestamp(h, t) = <<>>

\* C13: /history renders the last min(50, n) entries of the session's
\* transcript (its entries ordered by timestamp), newest last, n being the
\* number of entries of the session in the log at the read; entries of other
\* sessions are skipped.
C13_HistoryIsTranscriptTail ==
    \A r \in Requests :
        req[r].type = "history"
        => LET s == SessionLog(req[r].readLen, req[r].session_id)
               n == Len(s)
           IN /\ req[r].response = RenderHistory(req[r].history)
              /\ \A i \in DOMAIN req[r].history :
                   req[r].history[i].session_id = req[r].session_id
              /\ LastOfTranscript(req[r].history, s,
                                  IF n <= CommandLimit THEN n ELSE CommandLimit)

\* a /history of a session with more than 50 entries whose latest entries
\* are stamped before the others: the entry left out is not the one appended
\* first
C13_Witness ==
    \E r \in Requests :
        /\ Done(r)
        /\ req[r].type = "history"
        /\ Len(SessionLog(req[r].readLen, req[r].session_id)) > CommandLimit
        /\ Len(req[r].history) = CommandLimit
        /\ req[r].history # SubSeq(SessionLog(req[r].readLen, req[r].session_id),
                                   Len(SessionLog(req[r].readLen, req[r].session_id))
                                     - CommandLimit + 1,
                                   Len(SessionLog(req[r].readLen, req[r].session_id)))

\* how often the entry e occurs in h
Count(h, e) == Len(SelectSeq(h, LAMBDA x : x = e))

\* the entry a request appended first: its user or webhook entry
OwnFirstEntry(r) == MEMORY[req[r].first + 1]

\* the request has read its session's history
HasRead(r) == req[r].readLen > 0

\* the limit of the request's history read
LimitOf(r) == IF req[r].type = "history" THEN CommandLimit ELSE DefaultLimit

\* two /agent requests of one session, r1 having read the history and r2
\* having appended its user entry
RacingPair(r1, r2) ==
    /\ r1 # r2
    /\ req[r1].endpoint = "agent" /\ req[r2].endpoint = "agent"
    /\ req[r1].session_id = req[r2].session_id
    /\ HasRead(r1)
    /\ req[r2].appended >= 1

\* C14: between two /agent requests of one session the history read of one
\* and the user append of the other are not ordered, and the order alone
\* decides what is read: the read never holds an entry more often than the
\* log held it at the read (an append after the read is missed), and a read
\* that is not cut by the limit holds every entry as often as the log held
\* it (an append before the read is included).  Both orders are reachable.
C14_ReadRacesWithAppend ==
    \A r1, r2 \in Requests :
        RacingPair(r1, r2)
        => LET e == OwnFirstEntry(r2)
               log == SessionLog(req[r1].readLen, req[r1].session_id)
           IN /\ Count(req[r1].history, e) <= Count(log, e)
              /\ (req[r2].first >= req[r1].readLen /\ Count(log, e) = 0)
                   => Count(req[r1].history, e) = 0
              /\ (req[r2].first < req[r1].readLen /\ Len(log) <= LimitOf(r1))
                   => Count(req[r1].history, e) >= 1

\* r2 appended its user entry while r1 was running
AppendedDuring(r2, r1) ==
    /\ req[r1].first < req[r2].first
    /\ req[r1].pc # "done" \/ req[r2].first < req[r1].last - 1

\* two overlapping requests of one session with different user entries: the
\* read of the first missed the user entry the second appended while the
\* first was running, and the read of the second included the user entry of
\* the first, which had not yet answered
C14_Witness ==
    \E r1, r2 \in Requests :
        /\ RacingPair(r1, r2) /\ RacingPair(r2, r1)
        /\ OwnFirstEntry(r1) # OwnFirstEntry(r2)
        /\ AppendedDuring(r2, r1)
        /\ req[r1].readLen <= req[r2].first
        /\ Count(req[r1].history, OwnFirstEntry(r2)) = 0
        /\ req[r2].readLen <= req[r1].last - 1 \/ req[r1].pc \in {"model", "reply"}
        /\ Count(req[r2].history, OwnFirstEntry(r1)) >= 1

\* the request passed the check of the message (line 271) and appended its
\* user entry
Accepted(r) == req[r].endpoint = "agent" /\ req[r].appended >= 1

\* what an accepted request has appended when it has ended: the user entry
\* with the message first, the assistant entry with the response last, for
\* /remember the system entry between them, and nothing else
AppendsOfAgent(r) ==
    LET user == MEMORY[req[r].first + 1]
        assistant == MEMORY[req[r].last]
    IN /\ user.role = "user"
       /\ user.content = req[r].message.s
       /\ user.session_id = req[r].session_id
       /\ req[r].first + 1 < req[r].last
       /\ assistant.role = "assistant"
       /\ assistant.content = req[r].response
       /\ assistant.session_id = req[r].session_id
       /\ IF req[r].type = "remember"
          THEN /\ req[r].appended = 3
               /\ \E p \in (req[r].first + 2)..(req[r].last - 1) :
                    /\ MEMORY[p].role = "system"
                    /\ MEMORY[p].session_id = req[r].session_id
                    /\ MEMORY[p].content
                         = <<"[REMEMBER] ">> \o Strip(Drop(Strip(req[r].message.s), 10))
          ELSE req[r].appended = 2

\* C15: every accepted /agent request appends a user entry holding the
\* message, then for /remember a system entry "[REMEMBER] <text>", then one
\* assistant entry holding the response returned to the caller, and nothing
\* else: 3 entries for /remember, 2 otherwise.
C15_AcceptedRequestAppends ==
    \A r \in Requests : (Done(r) /\ Accepted(r)) => AppendsOfAgent(r)

\* the entries of session_id in the log mem, in the order of the log
ProjectOn(mem, session_id) == SelectSeq(mem, LAMBDA m : m.session_id = session_id)

SessionsOf(mem) == {mem[i].session_id : i \in DOMAIN mem}

\* what a request of session s has read holds entries of s only, and is what
\* the same read returns on the log with every entry of another session
\* taken out
ReadsOwnSessionOnly ==
    \A r \in Requests :
        HasRead(r)
        => /\ \A i \in DOMAIN req[r].history :
                req[r].history[i].session_id = req[r].session_id
           /\ req[r].history
                = get_session_history(
                      ProjectOn(SubSeq(MEMORY, 1, req[r].readLen), req[r].session_id),
                      req[r].session_id, LimitOf(r))
           /\ req[r].type = "history" => req[r].response = RenderHistory(req[r].history)

\* a step of a request leaves the entries of every session but its own as
\* they are
StepKeepsOtherSessions ==
    \A r \in Requests :
        req'[r] # req[r]
        => \A s \in SessionsOf(MEMORY') :
               s # req'[r].session_id => ProjectOn(MEMORY', s) = ProjectOn(MEMORY, s)

\* C16: sessions are isolated.  What /history renders and what is sent to
\* the model for session s holds entries of s only and is the read of the
\* log without the entries of other sessions; and no step of a request of
\* another session changes the entries of s.  So requests of other sessions
\* added to a run change nothing of what a request of s reads.
C16_SessionIsolation == []ReadsOwnSessionOnly /\ [][StepKeepsOtherSessions]_vars

\* a request has read its session's history from a log in which a request
\* of another session had appended between two entries of the session
C16_Witness ==
    \E r \in Requests :
        /\ Done(r)
        /\ HasRead(r)
        /\ Len(req[r].history) >= 2
        /\ \E i, j, k \in 1..req[r].readLen :
             /\ i < j /\ j < k
             /\ MEMORY[i].session_id = req[r].session_id
             /\ MEMORY[j].session_id # req[r].session_id
             /\ MEMORY[k].session_id = req[r].session_id
        /\ \E q \in Requests :
             q # r /\ req[q].appended >= 1 /\ req[q].session_id # req[r].session_id

\* q does not run while r runs: q has not arrived; or q ended in the step it
\* arrived in (answered 400 or 500 before any append); or q ended with its
\* last append and that was before r arrived; or q arrived after r ended
NotConcurrent(q, r) ==
    \/ req[q].pc = "idle"
    \/ req[q].appended = 0
    \/ /\ Done(q) /\ req[q].status = 200
       /\ req[q].last <= req[r].first
    \/ /\ Done(r)
       /\ req[q].first >= req[r].last

NoConcurrentInSession(r) ==
    \A q \in Requests \ {r} :
        (req[q].pc # "idle" /\ req[q].session_id = req[r].session_id)
        => NotConcurrent(q, r)

\* C17: in a /agent request that is no command and has no concurrent request
\* in its session, the history read for the model ends with the request's
\* own user entry, so at most 19 earlier entries go with it and the message
\* is the last two turns of the payload.
C17_OwnEntryLast ==
    \A r \in Requests :
        (NonCommand(r) /\ HasRead(r) /\ NoConcurrentInSession(r))
        => LET h == req[r].history  c == req[r].contents
           IN /\ h # <<>>
              /\ h[Len(h)] = OwnFirstEntry(r)
              /\ Len(h) - 1 <= DefaultLimit - 1
              /\ req[r].apiCalls = 1
                   => /\ Len(c) >= 3
                      /\ c[Len(c)] = [role |-> "user", text |-> req[r].message.s]
                      /\ c[Len(c) - 1] = [role |-> "user", text |-> req[r].message.s]

\* the number of entries the code appends for a request, by what the request
\* is: none when it is answered before the first append (400, or 500 for a
\* body that is no object); for /agent the user entry, the system entry of
\* /remember and the assistant entry, the user entry alone when the message
\* is no str; for /webhook the webhook entry and, when an interpretation is
\* asked for, the assistant entry
EntriesOf(r) ==
    IF req[r].body # "object" THEN 0
    ELSE IF req[r].endpoint = "webhook"
    THEN (IF Truthy(req[r].interpret) THEN 2 ELSE 1)
    ELSE IF ~Truthy(req[r].message) THEN 0
    ELSE IF req[r].message.t # "str" THEN 1
    ELSE IF CommandOf(req[r].message.s) = "remember" THEN 3
    ELSE 2

RECURSIVE SumEntries(_)
\* the entries of the requests 1..n together
SumEntries(n) == IF n = 0 THEN 0 ELSE EntriesOf(n) + SumEntries(n - 1)

\* the length of the log the run started from (the requests of a run append
\* fewer than PrefillLen entries)
InitialLength ==
    IF Len(MEMORY) >= PrefillLen /\ SubSeq(MEMORY, 1, PrefillLen) = Prefill(PrefillLen)
    THEN PrefillLen ELSE 0

\* the request ends with an assistant entry
HasAssistantEntry(r) == Done(r) /\ req[r].status = 200 /\ EntriesOf(r) >= 2

\* C18: under every interleaving no append is lost and a request's own
\* entries keep their order: when all requests have ended, the log is as
\* long as the initial log and the entries of all requests together, and
\* each request's user or webhook entry stands in the log before its
\* assistant entry.
C18_NoAppendLost ==
    (\A r \in Requests : Done(r))
    => /\ Len(MEMORY) = InitialLength + SumEntries(MaxReq)
       /\ \A r \in Requests :
            /\ EntriesOf(r) >= 1
                 => /\ MEMORY[req[r].first + 1].session_id = req[r].session_id
                    /\ MEMORY[req[r].first + 1].role
                         = (IF req[r].endpoint = "webhook" THEN "webhook" ELSE "user")
                    /\ req[r].endpoint = "agent"
                         => MEMORY[req[r].first + 1].content = req[r].message.s
            /\ HasAssistantEntry(r)
                 => /\ req[r].first + 1 < req[r].last
                    /\ MEMORY[req[r].last].role = "assistant"
                    /\ MEMORY[req[r].last].session_id = req[r].session_id
                    /\ MEMORY[req[r].last].content
                         = (IF req[r].endpoint = "webhook" THEN req[r].gemini_summary[1]
                            ELSE req[r].response)

\* all requests have ended, a /agent request and a /webhook request with an
\* interpretation among them, and the entries of one are interleaved with the
\* entries of the other in the log
C18_Witness ==
    /\ \A r \in Requests : Done(r)
    /\ \E r1, r2 \in Requests :
         /\ req[r1].endpoint = "agent" /\ req[r2].endpoint = "webhook"
         /\ HasAssistantEntry(r1) /\ HasAssistantEntry(r2)
         /\ \/ req[r1].first < req[r2].first /\ req[r2].first < req[r1].last - 1
            \/ req[r2].first < req[r1].first /\ req[r1].first < req[r2].last - 1

====
